---- MODULE Spec2Model ----
(***************************************************************************)
(* Model of the foreign-function boundary of rust-wrapper/src/lib.rs: the  *)
(* heap boxes behind the opaque handles, the stores each call makes        *)
(* through the caller's output pointers, the error messages handed to the  *)
(* caller, and the external pty / process primitives, whose outcome (Ok,   *)
(* Err, panic) is chosen nondeterministically at every call.               *)
(***************************************************************************)
EXTENDS Integers, Sequences, FiniteSets, TLC

NULL == 0            \* the null handle / null message pointer
NullStr == "(null)"  \* the null C-string pointer

\* Bounds of the model.
MaxAllocs == 4      \* heap allocations (handle boxes and messages) ever made
MaxLen == 1         \* largest len passed to pty_read / pty_write
MaxArgc == 3        \* longest argument array passed to pty_open_and_spawn

HandleIds == 1..MaxAllocs

\* Outcomes of an external primitive: Ok, Err(e), or a panic.
ErrKinds == {"err"}
Outcomes == {"ok", "err", "panic"}

\* Terminal geometries offered by the caller (rows, cols are u16).
Rows == {24, 50}
Cols == {80}

VARIABLES
    masters,      \* live Master boxes (handle ids)
    children,     \* live Child boxes
    readers,      \* live Reader boxes
    writers,      \* live Writer boxes
    nextId,       \* next fresh address of the allocator
    relCount,     \* handle id -> number of times the box was released
    tookWriter,   \* master id -> the native controller has given its writer away
    parent,       \* reader / writer / child id -> master it was obtained with
    proc,         \* child id -> "none" | "running" | "killed" | "exited"
    status,       \* child id -> "none", or how the process terminated:
                  \* "success" | "failure" | "signaled" | "killed" (by the
                  \* signal of a pty_child_kill that returned 0)
    waiting,      \* children with a pty_child_wait call blocked in wait()
    native,       \* number of native objects alive: master, slave, child
    msgs,         \* live error messages (CString allocations)
    lost,         \* messages whose pointer the caller never received
    last          \* the call that returned last: its operation, handle
                  \* argument, return value, the outcome of the primitive,
                  \* the messages it allocated (nerrs), the text of the one
                  \* it left in *out_err_msg, the stores it made through the
                  \* caller's output pointers (slot -> value; a slot that
                  \* is not stored to keeps the value it held), the
                  \* primitives it invoked, the command it spawned, the
                  \* argument array it was given and the exit status a
                  \* wait() reported

vars == <<masters, children, readers, writers, nextId, relCount, tookWriter,
          parent, proc, status, waiting, native, msgs,
          lost, last>>

heapVars == <<masters, children, readers, writers, relCount, parent>>
ctlVars == <<tookWriter>>
procVars == <<proc, status>>

Handles == masters \cup children \cup readers \cup writers

(***************************************************************************)
(* CString::new(e.to_string()).unwrap_or_else(|_| CString::new(fallback)): *)
(* the text of the primitive's error, or the fallback when that text holds *)
(* an interior NUL.  The model keeps one abstract text for both.           *)
(***************************************************************************)
ErrText(kind, primitive, fallback) == "error: " \o primitive

\* CStr::to_string_lossy: bytes that are not UTF-8 become U+FFFD.
ToStringLossy(s) == IF s = "\\xff" THEN "U+FFFD" ELSE s

(***************************************************************************)
(* What a call reports when it returns: the messages it allocated (each    *)
(* one stored to *out_err_msg in turn, so only the last stays reachable),  *)
(* the other slots it wrote, and its return value.                         *)
(***************************************************************************)
NoWrites == <<>>

\* The argument array of a call that takes none: <<argv is null, argv, argc>>
NoInput == <<TRUE, <<>>, 0>>

\* A call of op on handle h that so far did nothing and returns 0.
\* boxes: the handle boxes it allocates, at nextId, nextId + 1, ...
Call(op, h) ==
    [op |-> op, h |-> h, ret |-> 0, res |-> "none", errs |-> <<>>,
     boxes |-> 0, writes |-> NoWrites, prims |-> {}, args |-> <<>>,
     input |-> NoInput, st |-> "none"]

Report(r) ==
    LET n == Len(r.errs)
        first == nextId + r.boxes
        new == {first + i - 1 : i \in 1..n}
        w == IF n = 0 THEN r.writes
             ELSE ("out_err_msg" :> (first + n - 1)) @@ r.writes
    IN  /\ first + n <= MaxAllocs + 1
        /\ nextId' = first + n
        /\ msgs' = msgs \cup new
        /\ lost' = lost \cup (new \ {first + n - 1})
        /\ last' = [op |-> r.op, h |-> r.h, ret |-> r.ret, res |-> r.res,
                    nerrs |-> n, text |-> IF n = 0 THEN "" ELSE r.errs[n],
                    writes |-> w, prims |-> r.prims, args |-> r.args,
                    input |-> r.input, st |-> r.st]

Init ==
    /\ masters = {}
    /\ children = {}
    /\ readers = {}
    /\ writers = {}
    /\ nextId = 1
    /\ relCount = [i \in HandleIds |-> 0]
    /\ tookWriter = [i \in HandleIds |-> FALSE]
    /\ parent = [i \in HandleIds |-> NULL]
    /\ proc = [i \in HandleIds |-> "none"]
    /\ status = [i \in HandleIds |-> "none"]
    /\ waiting = {}
    /\ native = [master |-> 0, slave |-> 0, child |-> 0]
    /\ msgs = {}
    /\ lost = {}
    /\ last = [op |-> "none", h |-> NULL, ret |-> 0, res |-> "none",
               nerrs |-> 0, text |-> "", writes |-> NoWrites, prims |-> {},
               args |-> <<>>, input |-> NoInput, st |-> "none"]

(***************************************************************************)
(* pty_open_and_spawn                                                      *)
(***************************************************************************)
\* What a caller passes: prog is null or a C string; argv is a null pointer
\* (argvNull) or an array of argc entries, each null or a C string (valid
\* UTF-8, or bytes that are not UTF-8).
Progs == {NullStr, "sh"}
CallArgvs == {<<NullStr, "a">>, <<"\\xff">>}

\* A scan that takes the first null entry as the end of the array.
RECURSIVE AppendArgsStop(_, _, _)
AppendArgsStop(argv, argc, i) ==
    IF i > argc THEN <<>>
    ELSE IF argv[i] = NullStr THEN <<>>
    ELSE <<ToStringLossy(argv[i])>> \o AppendArgsStop(argv, argc, i + 1)

\* builder.arg(..) for every non-null entry of argv[0..argc)
RECURSIVE AppendArgs(_, _, _)
AppendArgs(argv, argc, i) ==
    IF i > argc THEN <<>>
    ELSE IF argv[i] = NullStr THEN AppendArgs(argv, argc, i + 1)
    ELSE <<ToStringLossy(argv[i])>> \o AppendArgs(argv, argc, i + 1)

BuildArgs(argvNull, argv, argc) ==
    IF ~argvNull /\ argc > 0 THEN AppendArgs(argv, argc, 1) ELSE <<>>

\* A failure path that returns without drop(pair).
RollbackLeak(pair) == pair

\* drop(pair): the native controller and follower are released.
Rollback(pair) == [master |-> 0, slave |-> 0]

\* The body run under catch_unwind: what it returns (or that it unwound),
\* the messages it stored, the primitives it invoked and which native
\* objects created by it are still allocated when it is left.
SpawnBody(open, spawn, dropPanic) ==
    LET none == [master |-> 0, slave |-> 0]
        pair == [master |-> 1, slave |-> 1]
    IN  CASE open = "panic" ->
               [panicked |-> TRUE, code |-> -1, errs |-> <<>>, boxed |-> FALSE,
                pair |-> none, child |-> 0, prims |-> {"openpty"}]
          [] open \in ErrKinds ->
               [panicked |-> FALSE, code |-> -1,
                errs |-> <<ErrText(open, "openpty", "Failed to open PTY")>>,
                boxed |-> FALSE, pair |-> none, child |-> 0,
                prims |-> {"openpty"}]
          [] open = "ok" /\ spawn = "ok" ->
               \* pair.master moves into the Master box, pair.slave is
               \* dropped when the body is left
               [panicked |-> FALSE, code |-> 0, errs |-> <<>>, boxed |-> TRUE,
                pair |-> [master |-> 1, slave |-> 0], child |-> 1,
                prims |-> {"openpty", "spawn_command"}]
          [] open = "ok" /\ spawn \in ErrKinds ->
               \* a panic inside drop(pair) still drops the remaining fields
               [panicked |-> dropPanic, code |-> -1,
                errs |-> <<ErrText(spawn, "spawn_command",
                                   "Failed to spawn command")>>,
                boxed |-> FALSE, pair |-> Rollback(pair), child |-> 0,
                prims |-> {"openpty", "spawn_command"}]
          [] open = "ok" /\ spawn = "panic" ->
               \* unwinding drops the local pair
               [panicked |-> TRUE, code |-> -1, errs |-> <<>>, boxed |-> FALSE,
                pair |-> none, child |-> 0,
                prims |-> {"openpty", "spawn_command"}]

\* A null check that leaves prog out.
OpenRefusedOutsOnly(prog, outsOk) == ~outsOk

\* master_out.is_null() || child_out.is_null() || prog.is_null()
OpenRefused(prog, outsOk) == ~outsOk \/ prog = NullStr

PtyOpenAndSpawn(rows, cols, prog, argvNull, argv, argc, outsOk, open, spawn, dropPanic) ==
    LET call == Call("pty_open_and_spawn", NULL) IN
    IF OpenRefused(prog, outsOk)
    THEN /\ Report([call EXCEPT !.ret = -1,
                                !.errs = <<"Null pointer provided">>])
         /\ UNCHANGED <<heapVars, ctlVars, procVars, waiting, native>>
    ELSE LET b == SpawnBody(open, spawn, dropPanic)
             m == nextId
             c == nextId + 1
             spawned == "spawn_command" \in b.prims
             done == [call EXCEPT
                        !.ret = IF b.panicked THEN -1 ELSE b.code,
                        !.res = IF b.panicked THEN "panic"
                                ELSE IF open # "ok" THEN open ELSE spawn,
                        !.errs = IF b.panicked
                                 THEN Append(b.errs, "Panic during PTY open/spawn")
                                 ELSE b.errs,
                        !.prims = b.prims,
                        !.args = IF spawned
                                 THEN <<ToStringLossy(prog)>>
                                      \o BuildArgs(argvNull, argv, argc)
                                 ELSE <<>>,
                        !.input = IF spawned THEN <<argvNull, argv, argc>>
                                  ELSE NoInput]
         IN  /\ native' = [master |-> native.master + b.pair.master,
                           slave |-> native.slave + b.pair.slave,
                           child |-> native.child + b.child]
             /\ IF b.boxed
                THEN /\ Report([done EXCEPT !.boxes = 2,
                                            !.writes = ("master_out" :> m)
                                                    @@ ("child_out" :> c)])
                     /\ masters' = masters \cup {m}
                     /\ children' = children \cup {c}
                     /\ parent' = [parent EXCEPT ![c] = m]
                     /\ proc' = [proc EXCEPT ![c] = "running"]
                     /\ UNCHANGED <<readers, writers, relCount, tookWriter,
                                    status, waiting>>
                ELSE /\ Report(done)
                     /\ UNCHANGED <<heapVars, ctlVars, procVars, waiting>>

OpenAndSpawnNull ==
    \E rows \in Rows, cols \in Cols, prog \in Progs, outsOk \in BOOLEAN :
        /\ ~outsOk \/ prog = NullStr
        /\ PtyOpenAndSpawn(rows, cols, prog, TRUE, <<>>, 0, outsOk,
                           "ok", "ok", FALSE)

OpenAndSpawn ==
    \/ \E rows \in Rows, cols \in Cols, open \in Outcomes \ {"ok"} :
         PtyOpenAndSpawn(rows, cols, "sh", TRUE, <<>>, 0, TRUE,
                         open, "ok", FALSE)
    \/ \E rows \in Rows, cols \in Cols, argvNull \in BOOLEAN,
          spawn \in Outcomes :
         \E argv \in (IF argvNull THEN {<<>>} ELSE CallArgvs),
            dropPanic \in (IF spawn \in ErrKinds THEN BOOLEAN ELSE {FALSE}) :
             PtyOpenAndSpawn(rows, cols, "sh", argvNull, argv, Len(argv), TRUE,
                             "ok", spawn, dropPanic)

(***************************************************************************)
(* The null check of the operations that take a handle: return -1.         *)
(***************************************************************************)
\* A null check that reports the way the one of pty_open_and_spawn does.
RefusedWithMessage(call) ==
    [call EXCEPT !.ret = -1, !.errs = <<"Null pointer provided">>]

Refused(call) == [call EXCEPT !.ret = -1]

(***************************************************************************)
(* pty_get_reader                                                          *)
(***************************************************************************)
\* The return value and the messages stored for each outcome of
\* try_clone_reader.
GetReaderRet(res) == IF res = "ok" THEN 0 ELSE -1

GetReaderErrs(res) ==
    CASE res = "ok" -> <<>>
      [] res \in ErrKinds -> <<ErrText(res, "try_clone_reader", "Unknown error")>>
      [] res = "panic" -> <<"something is wrong in pty_get_reader">>

PtyGetReader(master, outOk, res) ==
    LET call == Call("pty_get_reader", master) IN
    /\ master \in masters \cup {NULL}
    /\ IF master = NULL \/ ~outOk
       THEN /\ res = "ok"
            /\ Report(Refused(call))
            /\ UNCHANGED <<heapVars, ctlVars, procVars, waiting, native>>
       ELSE LET r == nextId
                done == [call EXCEPT !.ret = GetReaderRet(res), !.res = res,
                                     !.errs = GetReaderErrs(res),
                                     !.prims = {"try_clone_reader"}]
            IN  IF res = "ok"
                THEN /\ Report([done EXCEPT !.boxes = 1,
                                            !.writes = "out_reader" :> r])
                     /\ readers' = readers \cup {r}
                     /\ parent' = [parent EXCEPT ![r] = master]
                     /\ UNCHANGED <<masters, children, writers, relCount,
                                    ctlVars, procVars, waiting, native>>
                ELSE /\ Report(done)
                     /\ UNCHANGED <<heapVars, ctlVars, procVars, waiting, native>>

GetReader ==
    \E master \in masters, res \in Outcomes : PtyGetReader(master, TRUE, res)

GetReaderNull ==
    \E master \in masters \cup {NULL}, outOk \in BOOLEAN :
        /\ master = NULL \/ ~outOk
        /\ PtyGetReader(master, outOk, "ok")

(***************************************************************************)
(* pty_get_writer                                                          *)
(***************************************************************************)
\* MasterPty::take_writer hands the writer out once: after it has returned
\* Ok for a controller it only fails for that controller.
TakeWriterOutcomes(master) ==
    IF tookWriter[master] THEN Outcomes \ {"ok"} ELSE Outcomes

\* An Err arm that returns 0.
GetWriterRetErrOk(res) == IF res = "panic" THEN -1 ELSE 0

GetWriterRet(res) == IF res = "ok" THEN 0 ELSE -1

GetWriterErrs(res) ==
    CASE res = "ok" -> <<>>
      [] res \in ErrKinds -> <<ErrText(res, "take_writer", "Unknown error")>>
      [] res = "panic" -> <<"something is wrong in pty_get_writer">>

PtyGetWriter(master, outOk, res) ==
    LET call == Call("pty_get_writer", master) IN
    /\ master \in masters \cup {NULL}
    /\ IF master = NULL \/ ~outOk
       THEN /\ res = "ok"
            /\ Report(Refused(call))
            /\ UNCHANGED <<heapVars, ctlVars, procVars, waiting, native>>
       ELSE LET w == nextId
                done == [call EXCEPT !.ret = GetWriterRet(res), !.res = res,
                                     !.errs = GetWriterErrs(res),
                                     !.prims = {"take_writer"}]
            IN  /\ res \in TakeWriterOutcomes(master)
                /\ IF res = "ok"
                   THEN /\ Report([done EXCEPT !.boxes = 1,
                                               !.writes = "out_writer" :> w])
                        /\ writers' = writers \cup {w}
                        /\ parent' = [parent EXCEPT ![w] = master]
                        /\ tookWriter' = [tookWriter EXCEPT ![master] = TRUE]
                        /\ UNCHANGED <<masters, children, readers, relCount,
                                       procVars, waiting, native>>
                   ELSE /\ Report(done)
                        /\ UNCHANGED <<heapVars, ctlVars, procVars, waiting,
                                       native>>

GetWriter ==
    \E master \in masters, res \in Outcomes : PtyGetWriter(master, TRUE, res)

GetWriterNull ==
    \E master \in masters \cup {NULL}, outOk \in BOOLEAN :
        /\ master = NULL \/ ~outOk
        /\ PtyGetWriter(master, outOk, "ok")

(***************************************************************************)
(* pty_read, pty_write                                                     *)
(***************************************************************************)
ReadRet(res, n) == IF res = "ok" THEN n ELSE -1

ReadErrs(res) ==
    CASE res = "ok" -> <<>>
      [] res \in ErrKinds -> <<ErrText(res, "read", "Unknown error")>>
      [] res = "panic" -> <<"something is wrong in pty_read">>

\* n: the count the stream reports, 0 (end of stream) up to len.
PtyRead(reader, bufOk, len, res, n) ==
    LET call == Call("pty_read", reader) IN
    /\ reader \in readers \cup {NULL}
    /\ n \in 0..len
    /\ IF reader = NULL \/ ~bufOk
       THEN /\ res = "ok" /\ n = 0
            /\ Report(Refused(call))
       ELSE /\ (res # "ok") => (n = 0)
            /\ Report([call EXCEPT !.ret = ReadRet(res, n), !.res = res,
                                   !.errs = ReadErrs(res), !.prims = {"read"}])
    /\ UNCHANGED <<heapVars, ctlVars, procVars, waiting, native>>

Read ==
    \E reader \in readers, len \in 0..MaxLen, res \in Outcomes :
      \E n \in (IF res = "ok" THEN 0..len ELSE {0}) :
        PtyRead(reader, TRUE, len, res, n)

ReadNull ==
    \E reader \in readers \cup {NULL}, bufOk \in BOOLEAN :
        /\ reader = NULL \/ ~bufOk
        /\ PtyRead(reader, bufOk, MaxLen, "ok", 0)

WriteRet(res, n) == IF res = "ok" THEN n ELSE -1

WriteErrs(res) ==
    CASE res = "ok" -> <<>>
      [] res \in ErrKinds -> <<ErrText(res, "write", "Unknown error")>>
      [] res = "panic" -> <<"something is wrong in pty_write">>

\* n: the count the stream accepted (a short write is allowed).
PtyWrite(writer, bufOk, len, res, n) ==
    LET call == Call("pty_write", writer) IN
    /\ writer \in writers \cup {NULL}
    /\ n \in 0..len
    /\ IF writer = NULL \/ ~bufOk
       THEN /\ res = "ok" /\ n = 0
            /\ Report(Refused(call))
       ELSE /\ (res # "ok") => (n = 0)
            /\ Report([call EXCEPT !.ret = WriteRet(res, n), !.res = res,
                                   !.errs = WriteErrs(res), !.prims = {"write"}])
    /\ UNCHANGED <<heapVars, ctlVars, procVars, waiting, native>>

Write ==
    \E writer \in writers, len \in 0..MaxLen, res \in Outcomes :
      \E n \in (IF res = "ok" THEN 0..len ELSE {0}) :
        PtyWrite(writer, TRUE, len, res, n)

WriteNull ==
    \E writer \in writers \cup {NULL}, bufOk \in BOOLEAN :
        /\ writer = NULL \/ ~bufOk
        /\ PtyWrite(writer, bufOk, MaxLen, "ok", 0)

(***************************************************************************)
(* pty_resize                                                              *)
(***************************************************************************)
ResizeRet(res) == IF res = "ok" THEN 0 ELSE -1

\* A resize that clears the slot with an empty message on success.
ResizeErrsClears(res) ==
    CASE res = "ok" -> <<"">>
      [] res \in ErrKinds -> <<ErrText(res, "resize", "Unknown error")>>
      [] res = "panic" -> <<"something is wrong in pty_resize">>

ResizeErrs(res) ==
    CASE res = "ok" -> <<>>
      [] res \in ErrKinds -> <<ErrText(res, "resize", "Unknown error")>>
      [] res = "panic" -> <<"something is wrong in pty_resize">>

\* A resize that takes the box (Box::from_raw) and so drops the controller
\* when its body is left.
ResizeDropsTaken(master, res) == {master}

\* &mut *master borrows the box: nothing is dropped when the body is left.
ResizeDrops(master, res) == {}

\* Dropping Master boxes releases them and their native controllers.
DropMasters(dropped) ==
    /\ masters' = masters \ dropped
    /\ relCount' = [i \in HandleIds |->
                      IF i \in dropped THEN relCount[i] + 1 ELSE relCount[i]]
    /\ native' = [native EXCEPT !.master = @ - Cardinality(dropped)]
    /\ tookWriter' = [i \in HandleIds |-> tookWriter[i] /\ i \notin dropped]

PtyResize(master, rows, cols, res) ==
    LET call == Call("pty_resize", master) IN
    /\ master \in masters \cup {NULL}
    /\ IF master = NULL
       THEN /\ res = "ok"
            /\ Report(Refused(call))
            /\ UNCHANGED <<masters, relCount, native, tookWriter>>
       ELSE /\ Report([call EXCEPT !.ret = ResizeRet(res), !.res = res,
                                   !.errs = ResizeErrs(res),
                                   !.prims = {"resize"}])
            /\ DropMasters(ResizeDrops(master, res))
    /\ UNCHANGED <<children, readers, writers, parent, procVars, waiting>>

Resize ==
    \E master \in masters, rows \in Rows, cols \in Cols, res \in Outcomes :
        PtyResize(master, rows, cols, res)

ResizeNull ==
    \E rows \in Rows, cols \in Cols : PtyResize(NULL, rows, cols, "ok")

(***************************************************************************)
(* pty_free_master, pty_free_child, pty_free_reader, pty_free_writer,      *)
(* pty_free_err_msg.  The caller passes null or a handle it owns.          *)
(***************************************************************************)
Released(h) == [relCount EXCEPT ![h] = @ + 1]

\* A release of the controller that also closes the streams taken from it.
PtyFreeMasterCascade(master) ==
    LET streams == IF master = NULL THEN {}
                   ELSE {x \in readers \cup writers : parent[x] = master}
        gone == streams \cup ({master} \ {NULL})
    IN  /\ master \in masters \cup {NULL}
        /\ Report(Call("pty_free_master", master))
        /\ masters' = masters \ {master}
        /\ readers' = readers \ streams
        /\ writers' = writers \ streams
        /\ relCount' = [i \in HandleIds |->
                          IF i \in gone THEN relCount[i] + 1 ELSE relCount[i]]
        /\ native' = [native EXCEPT
                        !.master = @ - (IF master = NULL THEN 0 ELSE 1)]
        /\ tookWriter' = [i \in HandleIds |-> tookWriter[i] /\ i # master]
        /\ UNCHANGED <<children, parent, procVars, waiting>>

PtyFreeMaster(master) ==
    /\ master \in masters \cup {NULL}
    /\ Report(Call("pty_free_master", master))
    /\ IF master # NULL
       THEN /\ masters' = masters \ {master}
            /\ relCount' = Released(master)
            /\ native' = [native EXCEPT !.master = @ - 1]
            /\ tookWriter' = [tookWriter EXCEPT ![master] = FALSE]
       ELSE UNCHANGED <<masters, relCount, native, tookWriter>>
    /\ UNCHANGED <<children, readers, writers, parent, procVars, waiting>>

\* A release of the child that closes the session it was spawned in.
PtyFreeChildSession(child) ==
    LET session == IF child = NULL THEN {} ELSE {parent[child]} \cap masters
    IN  /\ child \in (children \ waiting) \cup {NULL}
        /\ Report(Call("pty_free_child", child))
        /\ children' = children \ {child}
        /\ masters' = masters \ session
        /\ relCount' = [i \in HandleIds |->
                          IF i \in session \cup ({child} \ {NULL})
                          THEN relCount[i] + 1 ELSE relCount[i]]
        /\ native' = [native EXCEPT
                        !.child = @ - (IF child = NULL THEN 0 ELSE 1),
                        !.master = @ - Cardinality(session)]
        /\ proc' = [i \in HandleIds |-> IF i = child THEN "none" ELSE proc[i]]
        /\ status' = [i \in HandleIds |->
                        IF i = child THEN "none" ELSE status[i]]
        /\ UNCHANGED <<readers, writers, parent, ctlVars, waiting>>

PtyFreeChild(child) ==
    /\ child \in (children \ waiting) \cup {NULL}
    /\ Report(Call("pty_free_child", child))
    /\ IF child # NULL
       THEN /\ children' = children \ {child}
            /\ relCount' = Released(child)
            /\ native' = [native EXCEPT !.child = @ - 1]
            /\ proc' = [proc EXCEPT ![child] = "none"]
            /\ status' = [status EXCEPT ![child] = "none"]
       ELSE UNCHANGED <<children, relCount, native, proc, status>>
    /\ UNCHANGED <<masters, readers, writers, parent, ctlVars, waiting>>

\* A release that closes every reader cloned from the same controller.
PtyFreeReaderSiblings(reader) ==
    LET gone == IF reader = NULL THEN {}
                ELSE {r \in readers : parent[r] = parent[reader]}
    IN  /\ reader \in readers \cup {NULL}
        /\ Report(Call("pty_free_reader", reader))
        /\ readers' = readers \ gone
        /\ relCount' = [i \in HandleIds |->
                          IF i \in gone THEN relCount[i] + 1 ELSE relCount[i]]
        /\ UNCHANGED <<masters, children, writers, parent, ctlVars,
                       procVars, waiting, native>>

PtyFreeReader(reader) ==
    /\ reader \in readers \cup {NULL}
    /\ Report(Call("pty_free_reader", reader))
    /\ IF reader # NULL
       THEN /\ readers' = readers \ {reader}
            /\ relCount' = Released(reader)
       ELSE UNCHANGED <<readers, relCount>>
    /\ UNCHANGED <<masters, children, writers, parent, ctlVars,
                   procVars, waiting, native>>

PtyFreeWriter(writer) ==
    /\ writer \in writers \cup {NULL}
    /\ Report(Call("pty_free_writer", writer))
    /\ IF writer # NULL
       THEN /\ writers' = writers \ {writer}
            /\ relCount' = Released(writer)
       ELSE UNCHANGED <<writers, relCount>>
    /\ UNCHANGED <<masters, children, readers, parent, ctlVars,
                   procVars, waiting, native>>

\* ptr: null or a message the caller received through *out_err_msg.
PtyFreeErrMsg(ptr) ==
    /\ ptr \in (msgs \ lost) \cup {NULL}
    /\ msgs' = msgs \ {ptr}
    /\ last' = [op |-> "pty_free_err_msg", h |-> ptr, ret |-> 0,
                res |-> "none", nerrs |-> 0, text |-> "", writes |-> NoWrites,
                prims |-> {}, args |-> <<>>, input |-> NoInput, st |-> "none"]
    /\ UNCHANGED <<heapVars, nextId, ctlVars, procVars, waiting, native, lost>>

Free ==
    \/ \E master \in masters : PtyFreeMaster(master)
    \/ \E child \in children : PtyFreeChild(child)
    \/ \E reader \in readers : PtyFreeReader(reader)
    \/ \E writer \in writers : PtyFreeWriter(writer)
    \/ \E ptr \in msgs : PtyFreeErrMsg(ptr)

FreeNull ==
    \/ PtyFreeMaster(NULL)
    \/ PtyFreeChild(NULL)
    \/ PtyFreeReader(NULL)
    \/ PtyFreeWriter(NULL)
    \/ PtyFreeErrMsg(NULL)

(***************************************************************************)
(* The child process and the portable_pty::Child primitives.               *)
(***************************************************************************)
\* The process terminates: by itself with any status (an exit with code 0,
\* a non-zero exit, another signal), or, once a kill has been delivered, by
\* the signal of the kill.
ProcessExit(child, st) ==
    /\ child \in children
    /\ proc[child] \in {"running", "killed"}
    /\ st \in {"success", "failure", "signaled"}
              \cup (IF proc[child] = "killed" THEN {"killed"} ELSE {})
    /\ proc' = [proc EXCEPT ![child] = "exited"]
    /\ status' = [status EXCEPT ![child] = st]
    /\ UNCHANGED <<heapVars, nextId, ctlVars, waiting, native, msgs, lost,
                   last>>

\* Child::wait blocks until the process has terminated; Ok carries its status.
WaitOutcomes(child) ==
    (IF proc[child] = "exited" THEN {"ok"} ELSE {}) \cup (Outcomes \ {"ok"})

\* Child::try_wait never blocks: Ok(Some(status)) once the process has
\* terminated ("ok"), Ok(None) before ("running").
TryWaitOutcomes(child) ==
    (IF proc[child] = "exited" THEN {"ok"} ELSE {"running"})
        \cup (Outcomes \ {"ok"})

\* ExitStatus::success()
Success(st) == st = "success"

\* Dropping Child boxes releases them and their native child objects.
Drop(dropped) ==
    /\ children' = children \ dropped
    /\ relCount' = [i \in HandleIds |->
                      IF i \in dropped THEN relCount[i] + 1 ELSE relCount[i]]
    /\ native' = [native EXCEPT !.child = @ - Cardinality(dropped)]

(***************************************************************************)
(* pty_child_wait                                                          *)
(***************************************************************************)
\* A classification that reports a killed process as exit code 0.
WaitClassifyKilledOk(st) == <<IF st \in {"success", "killed"} THEN 0 ELSE 1, 0>>

\* <<*exit_code_out, *signal_out>> for a reported status
WaitClassify(st) == <<IF Success(st) THEN 0 ELSE 1, 0>>

WaitRet(res) == IF res = "ok" THEN 0 ELSE -1

\* a panic is turned into -1 by result.unwrap_or(-1): nothing is stored
WaitErrs(res) ==
    CASE res = "ok" -> <<>>
      [] res \in ErrKinds -> <<ErrText(res, "wait", "Unknown error")>>
      [] res = "panic" -> <<>>

\* A wait that gives the box back to the caller when wait() does not
\* return Ok.
WaitDropsOnOk(child, res) == IF res = "ok" THEN {child} ELSE {}

\* The boxes dropped when the body is left, by return or by unwinding:
\* child_struct owns the box from Box::from_raw on.
WaitDrops(child, res) == {child}

\* The call: null checks, then Box::from_raw(child) and the blocking wait().
PtyChildWaitCall(child, outsOk) ==
    /\ child \in (children \ waiting) \cup {NULL}
    /\ IF child = NULL \/ ~outsOk
       THEN /\ Report(Refused(Call("pty_child_wait", child)))
            /\ UNCHANGED waiting
       ELSE /\ waiting' = waiting \cup {child}
            /\ UNCHANGED <<nextId, msgs, lost, last>>
    /\ UNCHANGED <<heapVars, ctlVars, procVars, native>>

\* wait() has returned (or panicked); the call returns.
PtyChildWaitReturn(child, res) ==
    LET cls == WaitClassify(status[child])
        dropped == WaitDrops(child, res)
    IN  /\ child \in waiting
        /\ res \in WaitOutcomes(child)
        /\ Report([Call("pty_child_wait", child) EXCEPT
                     !.ret = WaitRet(res), !.res = res, !.errs = WaitErrs(res),
                     !.writes = IF res = "ok"
                                THEN ("exit_code_out" :> cls[1])
                                     @@ ("signal_out" :> cls[2])
                                ELSE NoWrites,
                     !.prims = {"wait"},
                     !.st = IF res = "ok" THEN status[child] ELSE "none"])
        /\ waiting' = waiting \ {child}
        /\ Drop(dropped)
        /\ proc' = [i \in HandleIds |-> IF i \in dropped THEN "none" ELSE proc[i]]
        /\ status' = [i \in HandleIds |->
                        IF i \in dropped THEN "none" ELSE status[i]]
        /\ UNCHANGED <<masters, readers, writers, parent, ctlVars>>

ChildWait ==
    \/ \E child \in children : PtyChildWaitCall(child, TRUE)
    \/ \E child \in waiting, res \in Outcomes : PtyChildWaitReturn(child, res)

ChildWaitNull ==
    \E child \in children \cup {NULL}, outsOk \in BOOLEAN :
        /\ child = NULL \/ ~outsOk
        /\ PtyChildWaitCall(child, outsOk)

(***************************************************************************)
(* pty_child_kill                                                          *)
(***************************************************************************)
KillRet(res) == IF res = "ok" THEN 0 ELSE -1

KillErrs(res) ==
    CASE res = "ok" -> <<>>
      [] res \in ErrKinds -> <<ErrText(res, "kill", "Unknown error")>>
      [] res = "panic" -> <<>>

\* &mut *child borrows the box: nothing is dropped when the body is left.
KillDrops(child, res) == {}

PtyChildKill(child, res) ==
    /\ child \in (children \ waiting) \cup {NULL}
    /\ IF child = NULL
       THEN /\ res = "ok"
            /\ Report(Refused(Call("pty_child_kill", child)))
            /\ UNCHANGED <<proc, children, relCount, native>>
       ELSE /\ Report([Call("pty_child_kill", child) EXCEPT
                         !.ret = KillRet(res), !.res = res,
                         !.errs = KillErrs(res), !.prims = {"kill"}])
            /\ proc' = IF res = "ok" /\ proc[child] = "running"
                       THEN [proc EXCEPT ![child] = "killed"]
                       ELSE proc
            /\ Drop(KillDrops(child, res))
    /\ UNCHANGED <<masters, readers, writers, parent, ctlVars, status, waiting>>

ChildKill ==
    \E child \in children, res \in Outcomes : PtyChildKill(child, res)

ChildKillNull == PtyChildKill(NULL, "ok")

(***************************************************************************)
(* pty_child_is_alive                                                      *)
(***************************************************************************)
\* The arms Ok(Some(_)) and Ok(None) read as "alive" and "not alive".
IsAliveRetInverted(res) ==
    CASE res = "ok" -> 1
      [] res = "running" -> 0
      [] OTHER -> -1

IsAliveRet(res) ==
    CASE res = "ok" -> 0
      [] res = "running" -> 1
      [] OTHER -> -1

IsAliveDrops(child, res) == {}

PtyChildIsAlive(child, res) ==
    /\ child \in (children \ waiting) \cup {NULL}
    /\ IF child = NULL
       THEN /\ res = "ok"
            /\ Report(Refused(Call("pty_child_is_alive", child)))
            /\ UNCHANGED <<children, relCount, native>>
       ELSE /\ res \in TryWaitOutcomes(child)
            /\ Report([Call("pty_child_is_alive", child) EXCEPT
                         !.ret = IsAliveRet(res), !.res = res,
                         !.prims = {"try_wait"}])
            /\ Drop(IsAliveDrops(child, res))
    /\ UNCHANGED <<masters, readers, writers, parent, ctlVars, procVars,
                   waiting>>

ChildIsAlive ==
    \E child \in children, res \in Outcomes \cup {"running"} :
        PtyChildIsAlive(child, res)

ChildIsAliveNull == PtyChildIsAlive(NULL, "ok")

(***************************************************************************)
(* pty_child_try_wait                                                      *)
(***************************************************************************)
\* A classification that reports the signal of a signalled process.
TryWaitClassifySignal(st) ==
    <<IF Success(st) THEN 0 ELSE 1, IF st \in {"signaled", "killed"} THEN 9 ELSE 0>>

\* <<*exit_code_out, *signal_out>> for a reported status
TryWaitClassify(st) == <<IF Success(st) THEN 0 ELSE 1, 0>>

\* The arms Ok(Some(status)) and Ok(None) with their results exchanged.
TryWaitRetSwapped(res) ==
    CASE res = "ok" -> 1
      [] res = "running" -> 0
      [] OTHER -> -1

TryWaitRet(res) ==
    CASE res = "ok" -> 0
      [] res = "running" -> 1
      [] OTHER -> -1

TryWaitErrs(res) ==
    CASE res \in {"ok", "running"} -> <<>>
      [] res \in ErrKinds -> <<ErrText(res, "try_wait", "Unknown error")>>
      [] res = "panic" -> <<>>

\* A try_wait that takes the box (Box::from_raw) once the exit is observed.
TryWaitDropsExited(child, res) == IF res = "ok" THEN {child} ELSE {}

\* &mut *child borrows the box: nothing is dropped when the body is left.
TryWaitDrops(child, res) == {}

\* A poll that zeroes the out-parameters before it looks at the status.
TryWaitWritesAlways(res, cls) ==
    IF res = "ok"
    THEN ("exit_code_out" :> cls[1]) @@ ("signal_out" :> cls[2])
    ELSE ("exit_code_out" :> 0) @@ ("signal_out" :> 0)

\* The out-parameters are assigned in the Ok(Some(status)) arm only.
TryWaitWrites(res, cls) ==
    IF res = "ok"
    THEN ("exit_code_out" :> cls[1]) @@ ("signal_out" :> cls[2])
    ELSE NoWrites

PtyChildTryWait(child, outsOk, res) ==
    /\ child \in (children \ waiting) \cup {NULL}
    /\ IF child = NULL \/ ~outsOk
       THEN /\ res = "ok"
            /\ Report(Refused(Call("pty_child_try_wait", child)))
            /\ UNCHANGED <<children, relCount, native>>
       ELSE LET cls == TryWaitClassify(status[child])
            IN  /\ res \in TryWaitOutcomes(child)
                /\ Report([Call("pty_child_try_wait", child) EXCEPT
                             !.ret = TryWaitRet(res), !.res = res,
                             !.errs = TryWaitErrs(res),
                             !.writes = TryWaitWrites(res, cls),
                             !.prims = {"try_wait"}])
                /\ Drop(TryWaitDrops(child, res))
    /\ UNCHANGED <<masters, readers, writers, parent, ctlVars, procVars,
                   waiting>>

ChildTryWait ==
    \E child \in children, res \in Outcomes \cup {"running"} :
        PtyChildTryWait(child, TRUE, res)

ChildTryWaitNull ==
    \E child \in children \cup {NULL}, outsOk \in BOOLEAN :
        /\ child = NULL \/ ~outsOk
        /\ PtyChildTryWait(child, outsOk, "ok")

Process ==
    \E child \in children, st \in {"success", "failure", "signaled", "killed"} :
        ProcessExit(child, st)

(***************************************************************************)
(* Spec: the calls that respect the pointer preconditions (live handles,   *)
(* valid output pointers) under every outcome of the primitives.           *)
(* SpecNull adds the calls that pass a null handle or a null pointer; they *)
(* return early and change nothing but what the caller observes.           *)
(***************************************************************************)
Next ==
    \/ OpenAndSpawn
    \/ GetReader
    \/ GetWriter
    \/ Read
    \/ Write
    \/ Resize
    \/ Free
    \/ ChildWait
    \/ ChildKill
    \/ ChildIsAlive
    \/ ChildTryWait
    \/ Process

Spec == Init /\ [][Next]_vars

NullCalls ==
    \/ OpenAndSpawnNull
    \/ GetReaderNull
    \/ GetWriterNull
    \/ ReadNull
    \/ WriteNull
    \/ ResizeNull
    \/ FreeNull
    \/ ChildWaitNull
    \/ ChildKillNull
    \/ ChildIsAliveNull
    \/ ChildTryWaitNull

NextNull == Next \/ NullCalls

SpecNull == Init /\ [][NextNull]_vars

(***************************************************************************)
(* Properties.  A step is the return of a call of op when it changes last  *)
(* to a record of op; a call that repeats the previous call with the same  *)
(* result and changes nothing is a stuttering step.                        *)
(***************************************************************************)
Returned(op) == last' # last /\ last'.op = op

Stored(l, slot) == slot \in DOMAIN l.writes

\* Every step that leaves last alone is the process terminating or a
\* pty_child_wait starting to block.
LastTracksCalls ==
    [][last' = last => UNCHANGED <<heapVars, nextId, ctlVars, native, msgs, lost>>]_vars

C2_WriterTakenOnce ==
    [][Returned("pty_get_writer") =>
         LET m == last'.h IN
         /\ m \in masters /\ m \in masters'
         /\ IF tookWriter[m]
            THEN /\ last'.ret = -1
                 /\ last'.nerrs = 1
                 /\ Stored(last', "out_err_msg")
                 /\ last'.writes["out_err_msg"] \in msgs' \ msgs
                 /\ ~Stored(last', "out_writer")
                 /\ writers' = writers
                 /\ relCount' = relCount
                 /\ tookWriter'[m]
            ELSE \/ /\ last'.ret = 0
                    /\ last'.res = "ok"
                    /\ Stored(last', "out_writer")
                    /\ LET w == last'.writes["out_writer"]
                       IN  /\ w >= nextId
                           /\ writers' = writers \cup {w}
                           /\ parent'[w] = m
                    /\ tookWriter'[m]
                 \/ /\ last'.ret = -1
                    /\ last'.res # "ok"
                    /\ ~Stored(last', "out_writer")
                    /\ writers' = writers
                    /\ ~tookWriter'[m]
    ]_vars

\* a second call on a controller whose writer is still live failed
C2_Witness ==
    /\ last.op = "pty_get_writer"
    /\ last.ret = -1
    /\ last.h \in masters
    /\ tookWriter[last.h]
    /\ \E w \in writers : parent[w] = last.h

(***************************************************************************)
(* C3: every call of pty_child_wait on a live child handle with non-null   *)
(* exit_code_out and signal_out, whether it returns 0 or -1 (wait() failed *)
(* or panicked), releases that handle exactly once: the Child box is live  *)
(* before the call, is not live after it, its release count is 1, its      *)
(* native child object is gone, and no other handle is released.  A call   *)
(* refused by the null check (null exit_code_out or signal_out) returns -1 *)
(* before Box::from_raw and leaves the handle live and unreleased.         *)
(***************************************************************************)
WaitRefused(l) == l.op = "pty_child_wait" /\ l.res = "none"

C3_WaitConsumes ==
    [][Returned("pty_child_wait") /\ last'.h # NULL =>
         LET c == last'.h IN
         /\ c \in children
         /\ relCount[c] = 0
         /\ UNCHANGED <<masters, readers, writers>>
         /\ IF WaitRefused(last')
            THEN /\ last'.ret = -1
                 /\ c \in children'
                 /\ UNCHANGED <<children, relCount, native>>
            ELSE /\ last'.ret \in {0, -1}
                 /\ children' = children \ {c}
                 /\ relCount' = [relCount EXCEPT ![c] = 1]
                 /\ native' = [native EXCEPT !.child = @ - 1]
                 /\ c \notin waiting'
    ]_vars

\* C3 as stated: any call given a live child handle releases it.
C3_AnyCallConsumes ==
    [][Returned("pty_child_wait") /\ last'.h \in children =>
         /\ last'.h \notin children'
         /\ relCount'[last'.h] = 1
    ]_vars

\* a wait() that panicked: the call returned -1 and the handle is gone
C3_Witness ==
    /\ last.op = "pty_child_wait"
    /\ last.res = "panic"
    /\ last.ret = -1
    /\ last.h \notin children
    /\ relCount[last.h] = 1

(***************************************************************************)
(* C4: pty_child_kill, pty_child_try_wait and pty_child_is_alive borrow    *)
(* the child handle.  Whatever any of them returns (0, 1 or -1), the       *)
(* handle it was given is live after the call, the live controllers,       *)
(* children, readers and writers and every release count are what they     *)
(* were before it, no native object is released, and the handle is not     *)
(* left blocked in a wait, so every lifecycle operation may follow.        *)
(***************************************************************************)
BorrowingOps == {"pty_child_kill", "pty_child_try_wait", "pty_child_is_alive"}

C4_BorrowKeepsHandle ==
    [][last' # last /\ last'.op \in BorrowingOps /\ last'.h # NULL =>
         /\ last'.ret \in {0, 1, -1}
         /\ last'.h \in children
         /\ last'.h \in children' \ waiting'
         /\ relCount'[last'.h] = 0
         /\ UNCHANGED <<masters, children, readers, writers, relCount, native>>
    ]_vars

\* a try_wait that observed the exit returned 0 and the handle is still live
C4_Witness ==
    /\ last.op = "pty_child_try_wait"
    /\ last.ret = 0
    /\ last.h \in children \ waiting
    /\ relCount[last.h] = 0

\* The fallible operations that take a diagnostic slot (out_err_msg).
SlotOps ==
    {"pty_open_and_spawn", "pty_get_reader", "pty_get_writer", "pty_read",
     "pty_write", "pty_resize", "pty_child_wait", "pty_child_kill",
     "pty_child_try_wait"}

\* The message each operation stores when it catches a panic.
GenericMessages ==
    {"Panic during PTY open/spawn"}
        \cup {"something is wrong in " \o op : op \in SlotOps}

(***************************************************************************)
(* C5: every call of an operation with a diagnostic slot that returns -1   *)
(* has stored a newly allocated, live message to *out_err_msg.             *)
(***************************************************************************)
C5_FailureHasMessage ==
    (last.op \in SlotOps /\ last.ret = -1) =>
        /\ last.nerrs >= 1
        /\ Stored(last, "out_err_msg")
        /\ last.writes["out_err_msg"] \in msgs

(***************************************************************************)
(* C6: a call whose primitive panicked returns -1 and has stored to        *)
(* *out_err_msg the generic message of its operation.                      *)
(***************************************************************************)
C6_PanicContained ==
    (last.op \in SlotOps /\ last.res = "panic") =>
        /\ last.ret = -1
        /\ Stored(last, "out_err_msg")
        /\ last.text \in GenericMessages

(***************************************************************************)
(* C7: every call that returns success (0, 1 for a child still running, or *)
(* a byte count >= 0 from pty_read / pty_write) stores nothing to          *)
(* *out_err_msg, which so holds the value it held before the call, and     *)
(* allocates no message: the live messages are those of before the call.   *)
(***************************************************************************)
FallibleOps == SlotOps \cup {"pty_child_is_alive"}

Alive(c) == proc[c] \in {"running", "killed"}

\* The stores a call made to *exit_code_out and *signal_out.
Classified(l, code, sig) ==
    /\ Stored(l, "exit_code_out") /\ l.writes["exit_code_out"] = code
    /\ Stored(l, "signal_out") /\ l.writes["signal_out"] = sig

Unclassified(l) == ~Stored(l, "exit_code_out") /\ ~Stored(l, "signal_out")

(***************************************************************************)
(* C8: pty_child_try_wait on a live child.  Before the process has         *)
(* terminated every call whose try_wait() poll does not itself fail        *)
(* returns 1 and writes no classification; after it has terminated every   *)
(* such call returns 0 with *exit_code_out and *signal_out written; a poll *)
(* that fails or panics returns -1.  The call never returns 0 before the   *)
(* exit nor 1 after it.  It never blocks and can be repeated: on every     *)
(* live child not blocked in a wait a call can return at once, in either   *)
(* phase, and the handle is live after every call.                         *)
(***************************************************************************)
C8_TryWaitStep ==
    Returned("pty_child_try_wait") /\ last'.h # NULL =>
        LET c == last'.h IN
        /\ c \in children /\ c \in children'
        /\ UNCHANGED <<proc, status, relCount>>
        /\ IF last'.res \in {"err", "panic"}
           THEN last'.ret = -1 /\ Unclassified(last')
           ELSE IF Alive(c)
           THEN last'.ret = 1 /\ Unclassified(last')
           ELSE /\ last'.ret = 0
                /\ \E code \in {0, 1} : Classified(last', code, 0)

C8_TryWaitReady ==
    \A c \in children \ waiting :
        /\ ENABLED PtyChildTryWait(c, TRUE,
                                   IF Alive(c) THEN "running" ELSE "ok")
        /\ ~ENABLED PtyChildTryWait(c, TRUE,
                                    IF Alive(c) THEN "ok" ELSE "running")

C8_TryWaitPhases == []C8_TryWaitReady /\ [][C8_TryWaitStep]_vars

\* the same handle was polled while running and is polled again after the
\* exit: the call returned 0
C8_Witness ==
    /\ last.op = "pty_child_try_wait"
    /\ last.ret = 0
    /\ last.h \in children
    /\ proc[last.h] = "exited"
    /\ Classified(last, 1, 0)

(***************************************************************************)
(* LiveSpec: Spec, with a process that has been sent the signal of a kill  *)
(* terminating, and a wait() on a terminated process returning.            *)
(***************************************************************************)
LiveSpec ==
    /\ Spec
    /\ \A c \in HandleIds :
         /\ WF_vars(ProcessExit(c, "killed"))
         /\ WF_vars(PtyChildWaitReturn(c, "ok"))

(***************************************************************************)
(* C9: pty_child_kill on a running child requests the termination without  *)
(* observing it: it writes no exit status, releases nothing, and when it   *)
(* returns 0 the process is signalled but not yet terminated.  A           *)
(* pty_child_wait that follows a kill that returned 0 eventually returns,  *)
(* and when its wait() reports the status of the killed process it returns *)
(* 0 with *exit_code_out = 1 and *signal_out = 0.                          *)
(***************************************************************************)
C9_KillStep ==
    Returned("pty_child_kill") /\ last'.h # NULL /\ proc[last'.h] = "running" =>
        LET c == last'.h IN
        /\ Unclassified(last')
        /\ c \in children'
        /\ UNCHANGED <<children, relCount, native, status>>
        /\ status'[c] = "none"
        /\ IF last'.ret = 0
           THEN last'.res = "ok" /\ proc'[c] = "killed"
           ELSE last'.ret = -1 /\ proc'[c] = "running"

C9_WaitStep ==
    Returned("pty_child_wait") /\ last'.res = "ok" /\ status[last'.h] = "killed" =>
        /\ last'.ret = 0
        /\ Classified(last', 1, 0)

Killed(c) == proc[c] = "killed" \/ (proc[c] = "exited" /\ status[c] = "killed")

C9_KillThenWait ==
    /\ [][C9_KillStep /\ C9_WaitStep]_vars
    /\ \A c \in HandleIds :
         (c \in waiting /\ Killed(c))
             ~> (last.op = "pty_child_wait" /\ last.h = c /\ c \notin waiting
                 /\ last.res # "none")

\* the wait that followed a kill returned 0 with exit code 1, signal 0
C9_Witness ==
    /\ last.op = "pty_child_wait"
    /\ last.ret = 0
    /\ last.st = "killed"
    /\ Classified(last, 1, 0)

(***************************************************************************)
(* C10: for every termination status, pty_child_wait and                   *)
(* pty_child_try_wait (when it reports the exit) write the same            *)
(* classification: *exit_code_out is 0 exactly when the process terminated *)
(* successfully and 1 for a non-zero exit or a signal, and *signal_out is  *)
(* always 0.                                                               *)
(***************************************************************************)
ExitOps == {"pty_child_wait", "pty_child_try_wait"}

C10_Classification ==
    [][last' # last /\ last'.op \in ExitOps /\ last'.res = "ok" =>
         LET st == status[last'.h] IN
         /\ st \in {"success", "failure", "signaled", "killed"}
         /\ last'.ret = 0
         /\ Classified(last', IF st = "success" THEN 0 ELSE 1, 0)
    ]_vars

\* a try_wait reported a process terminated by a signal as (1, 0)
C10_Witness ==
    /\ last.op = "pty_child_try_wait"
    /\ last.res = "ok"
    /\ status[last.h] = "signaled"
    /\ Classified(last, 1, 0)

(***************************************************************************)
(* C11: on a live child pty_child_is_alive returns, for every result of    *)
(* the try_wait() poll, the status pty_child_try_wait returns for that     *)
(* result: 1 while the process has not terminated, 0 once it has, -1 when  *)
(* the poll fails or panics.  It writes no exit detail, stores no message  *)
(* and leaves the process and the handle as they were.                     *)
(***************************************************************************)
C11_IsAliveAsTryWait ==
    [][Returned("pty_child_is_alive") /\ last'.h # NULL =>
         LET c == last'.h IN
         /\ c \in children \ waiting
         /\ last'.res \in TryWaitOutcomes(c)
         /\ last'.ret = TryWaitRet(last'.res)
         /\ IF last'.res \in {"err", "panic"} THEN last'.ret = -1
            ELSE IF Alive(c) THEN last'.ret = 1
            ELSE last'.ret = 0
         /\ last'.writes = NoWrites
         /\ last'.nerrs = 0
         /\ UNCHANGED <<heapVars, procVars, waiting, native, msgs, lost>>
    ]_vars

\* is_alive reported a terminated process on a handle that is still live
C11_Witness ==
    /\ last.op = "pty_child_is_alive"
    /\ last.ret = 0
    /\ last.h \in children
    /\ proc[last.h] = "exited"

(***************************************************************************)
(* SpecArgs: pty_open_and_spawn called with every argument array of up to  *)
(* MaxArgc entries, each null or a string, and every argc up to its        *)
(* length, or with a null array and any argc.                              *)
(***************************************************************************)
ArgStrs == {NullStr, "a", "b"}

ArgArrays == UNION {[1..n -> ArgStrs] : n \in 0..MaxArgc}

OpenAndSpawnArgs ==
    \E argvNull \in BOOLEAN :
      \E argv \in (IF argvNull THEN {<<>>} ELSE ArgArrays) :
        \E argc \in 0..(IF argvNull THEN MaxArgc ELSE Len(argv)) :
          PtyOpenAndSpawn(24, 80, "sh", argvNull, argv, argc, TRUE,
                          "ok", "ok", FALSE)

SpecArgs == Init /\ [][OpenAndSpawnArgs]_vars

(***************************************************************************)
(* C12: the command pty_open_and_spawn hands to spawn_command is the       *)
(* program followed by exactly the non-null entries of argv[0..argc), in   *)
(* their order: a null entry is skipped and the entries after it are still *)
(* appended; with argc = 0 or a null array the argument list is empty.     *)
(***************************************************************************)
NonNull(entries) == SelectSeq(entries, LAMBDA x : x # NullStr)

C12_ArgsInOrder ==
    (last.op = "pty_open_and_spawn" /\ "spawn_command" \in last.prims) =>
        LET null == last.input[1]
            argv == last.input[2]
            argc == last.input[3]
            kept == IF null \/ argc = 0 THEN <<>>
                    ELSE NonNull(SubSeq(argv, 1, argc))
        IN  /\ Len(last.args) = 1 + Len(kept)
            /\ last.args[1] = "sh"
            /\ \A i \in 1..Len(kept) :
                 last.args[i + 1] = ToStringLossy(kept[i])

\* a null entry between two strings: both strings were passed, in order
C12_Witness ==
    /\ last.op = "pty_open_and_spawn"
    /\ last.ret = 0
    /\ last.input = <<FALSE, <<"a", NullStr, "b">>, 3>>
    /\ last.args = <<"sh", "a", "b">>

(***************************************************************************)
(* C13: pty_open_and_spawn called with a null program pointer returns -1   *)
(* at once: neither openpty nor spawn_command is invoked, no handle is     *)
(* allocated (the one allocation is the message), *master_out and          *)
(* *child_out are not stored to, and no live handle, native object or      *)
(* process changes.                                                        *)
(***************************************************************************)
NullProgCall ==
    \E rows \in Rows, cols \in Cols, outsOk \in BOOLEAN :
        PtyOpenAndSpawn(rows, cols, NullStr, TRUE, <<>>, 0, outsOk,
                        "ok", "ok", FALSE)

C13_NullProgRefused ==
    [][NullProgCall =>
         /\ last'.op = "pty_open_and_spawn"
         /\ last'.ret = -1
         /\ last'.prims = {}
         /\ ~Stored(last', "master_out") /\ ~Stored(last', "child_out")
         /\ last'.nerrs = 1
         /\ nextId' = nextId + 1
         /\ msgs' = msgs \cup {nextId}
         /\ UNCHANGED <<heapVars, ctlVars, procVars, waiting, native>>
    ]_vars

\* the call was refused while a session was open
C13_Witness ==
    /\ last.op = "pty_open_and_spawn"
    /\ last.ret = -1
    /\ last.prims = {}
    /\ last.text = "Null pointer provided"
    /\ masters # {}

(***************************************************************************)
(* C14: a null handle passed to pty_get_reader, pty_get_writer, pty_read,  *)
(* pty_write, pty_resize, pty_child_wait, pty_child_kill,                  *)
(* pty_child_is_alive or pty_child_try_wait makes the call return -1 at    *)
(* once: no primitive is invoked, nothing is stored to *out_err_msg or to  *)
(* any output slot, no message is allocated and no handle, native object   *)
(* or process changes.                                                     *)
(***************************************************************************)
HandleOps ==
    {"pty_get_reader", "pty_get_writer", "pty_read", "pty_write",
     "pty_resize", "pty_child_wait", "pty_child_kill", "pty_child_is_alive",
     "pty_child_try_wait"}

C14_NullHandleRefused ==
    [][last' # last /\ last'.op \in HandleOps /\ last'.h = NULL =>
         /\ last'.ret = -1
         /\ last'.prims = {}
         /\ last'.writes = NoWrites
         /\ last'.nerrs = 0
         /\ UNCHANGED <<heapVars, nextId, ctlVars, procVars, waiting, native,
                        msgs, lost>>
    ]_vars

\* a null child handle was refused while a child and a message are live
C14_Witness ==
    /\ last.op = "pty_child_kill"
    /\ last.h = NULL
    /\ last.ret = -1
    /\ children # {}
    /\ msgs # {}

(***************************************************************************)
(* C15: pty_resize on a live controller, whether it returns 0 or -1,       *)
(* releases nothing: the controller, every reader and writer obtained from *)
(* it and the child stay live with their release counts, the writer-taken  *)
(* state of the controller and the process are unchanged, and after the    *)
(* call every such reader can be read and every such writer written.       *)
(***************************************************************************)
C15_ResizeStep ==
    Returned("pty_resize") /\ last'.h # NULL =>
        /\ last'.ret \in {0, -1}
        /\ last'.h \in masters
        /\ UNCHANGED <<masters, children, readers, writers, relCount, parent,
                       tookWriter, proc, status, waiting, native>>

C15_StreamsUsable ==
    (last.op = "pty_resize" /\ last.h # NULL) =>
        /\ \A r \in readers :
             parent[r] = last.h => ENABLED PtyRead(r, TRUE, MaxLen, "ok", MaxLen)
        /\ \A w \in writers :
             parent[w] = last.h => ENABLED PtyWrite(w, TRUE, MaxLen, "ok", MaxLen)

C15_ResizeKeepsStreams == []C15_StreamsUsable /\ [][C15_ResizeStep]_vars

\* a failed resize on a controller whose writer and child are outstanding
C15_Witness ==
    /\ last.op = "pty_resize"
    /\ last.ret = -1
    /\ last.h \in masters
    /\ tookWriter[last.h]
    /\ \E w \in writers : parent[w] = last.h
    /\ \E c \in children : parent[c] = last.h

(***************************************************************************)
(* C16: pty_get_reader can succeed again and again on one live controller  *)
(* (as long as the allocator has room), however many readers it has given  *)
(* out; each success stores a newly allocated reader, distinct from every  *)
(* reader issued before, and leaves the earlier ones live.                 *)
(* pty_free_reader on a live reader releases that reader only: every other *)
(* reader stays live, unreleased, and can be read.                         *)
(***************************************************************************)
C16_GetReaderStep ==
    Returned("pty_get_reader") /\ last'.ret = 0 =>
        LET r == last'.writes["out_reader"] IN
        /\ Stored(last', "out_reader")
        /\ r >= nextId /\ r \notin Handles /\ relCount[r] = 0
        /\ readers' = readers \cup {r}
        /\ parent'[r] = last'.h
        /\ UNCHANGED <<masters, children, writers, relCount, tookWriter, native>>

C16_FreeReaderStep ==
    Returned("pty_free_reader") /\ last'.h # NULL =>
        /\ last'.h \in readers
        /\ readers' = readers \ {last'.h}
        /\ relCount' = [relCount EXCEPT ![last'.h] = 1]
        /\ UNCHANGED <<masters, children, writers, parent, tookWriter, native>>

C16_ReadersReady ==
    /\ \A m \in masters :
         nextId <= MaxAllocs => ENABLED PtyGetReader(m, TRUE, "ok")
    /\ \A r \in readers :
         /\ relCount[r] = 0
         /\ ENABLED PtyRead(r, TRUE, MaxLen, "ok", MaxLen)

C16_ReadersIndependent ==
    /\ []C16_ReadersReady
    /\ [][C16_GetReaderStep /\ C16_FreeReaderStep]_vars

\* one of two readers of a controller was released, the other is live
C16_Witness ==
    /\ last.op = "pty_free_reader"
    /\ last.h # NULL
    /\ last.h \notin readers
    /\ \E r \in readers : parent[r] = parent[last.h] /\ parent[r] \in masters

(***************************************************************************)
(* C17: pty_free_master, pty_free_child, pty_free_reader, pty_free_writer  *)
(* and pty_free_err_msg return nothing and report no failure.  Called with *)
(* null they change nothing.  Called with a live handle (or a message the  *)
(* caller holds) they release exactly that one object: it is no longer     *)
(* live, its release count is 1, and every other handle, message, release  *)
(* count and process is as before.                                         *)
(***************************************************************************)
FreeOps ==
    {"pty_free_master", "pty_free_child", "pty_free_reader",
     "pty_free_writer", "pty_free_err_msg"}

\* the live objects of the kind a release operation takes
Live(op) ==
    CASE op = "pty_free_master" -> masters
      [] op = "pty_free_child" -> children
      [] op = "pty_free_reader" -> readers
      [] op = "pty_free_writer" -> writers
      [] op = "pty_free_err_msg" -> msgs

\* what a release of h by op leaves of a set of the kind of kindOp
Less(set, op, kindOp, h) == IF op = kindOp THEN set \ {h} ELSE set

Releasers(i) ==
    IF i \in masters THEN {"pty_free_master"}
    ELSE IF i \in children THEN {"pty_free_child", "pty_child_wait"}
    ELSE IF i \in readers THEN {"pty_free_reader"}
    ELSE IF i \in writers THEN {"pty_free_writer"}
    ELSE {}

C18_FreeMasterStep ==
    Returned("pty_free_master") /\ last'.h # NULL =>
        /\ masters' = masters \ {last'.h}
        /\ UNCHANGED <<children, readers, writers, proc, status, waiting>>
        /\ \A i \in HandleIds \ {last'.h} : relCount'[i] = relCount[i]

C18_OwnRelease ==
    \A i \in HandleIds :
        (i \in Handles /\ (i \notin Handles' \/ relCount'[i] # relCount[i])) =>
            /\ i \notin Handles'
            /\ relCount'[i] = relCount[i] + 1
            /\ last' # last
            /\ last'.h = i
            /\ last'.op \in Releasers(i)
            /\ Handles' = Handles \ {i}

C18_OrphansUsable ==
    /\ \A r \in readers : ENABLED PtyRead(r, TRUE, MaxLen, "ok", MaxLen)
    /\ \A w \in writers : ENABLED PtyWrite(w, TRUE, MaxLen, "ok", MaxLen)
    /\ \A c \in children \ waiting :
         /\ ENABLED PtyChildIsAlive(c, IF Alive(c) THEN "running" ELSE "ok")
         /\ ENABLED PtyFreeChild(c)
    /\ \A i \in HandleIds : i \in Handles <=> (i < nextId /\ relCount[i] = 0
                                               /\ i \notin msgs
                                               /\ Releasers(i) # {})

C18_IndependentOwnership ==
    /\ []C18_OrphansUsable
    /\ [][C18_FreeMasterStep /\ C18_OwnRelease]_vars

\* the controller was released; its child, reader and writer are still live
C18_Witness ==
    /\ last.op = "pty_free_master"
    /\ last.h # NULL
    /\ last.h \notin masters
    /\ \E c \in children : parent[c] = last.h
    /\ \E r \in readers : parent[r] = last.h
    /\ \E w \in writers : parent[w] = last.h

(***************************************************************************)
(* C19: pty_child_try_wait stores through exit_code_out and signal_out     *)
(* exactly when it returns 0.  When it returns 1 (still running) or -1     *)
(* (null argument, error or panic of the poll) neither location is         *)
(* written; when it returns 0 both are written.                            *)
(***************************************************************************)
C19_TryWaitWritesOnZero ==
    [][Returned("pty_child_try_wait") =>
          /\ last'.ret \in {0, 1, -1}
          /\ Stored(last', "exit_code_out") <=> last'.ret = 0
          /\ Stored(last', "signal_out") <=> last'.ret = 0
          /\ last'.ret # 0 => DOMAIN last'.writes \subseteq {"out_err_msg"}]_vars

\* a poll of a running process returned 1 and wrote nothing
C19_Witness ==
    /\ last.op = "pty_child_try_wait"
    /\ last.h # NULL
    /\ last.ret = 1
    /\ last.writes = NoWrites
    /\ ~Stored(last, "exit_code_out")

(***************************************************************************)
(* C20: within one call an operation allocates at most one error message   *)
(* and stores to the diagnostic slot at most once, so every message a call *)
(* allocated is the one the caller finds in the slot and none is lost,     *)
(* also when drop(pair) faults in pty_open_and_spawn after the failure of  *)
(* spawn_command has stored its message.                                   *)
(***************************************************************************)
C20_OneMessagePerCall ==
    /\ last.nerrs <= 1
    /\ lost = {}
    /\ msgs \subseteq 1..(nextId - 1)

\* Outside that one path every call allocates at most one message, the one
\* it leaves in the slot: a second message is only ever allocated by
\* pty_open_and_spawn when spawn_command failed and the body then unwound.
C20_OnlyRollbackFault ==
    [][last' # last =>
          /\ last'.nerrs <= 2
          /\ Cardinality(msgs' \ msgs) = last'.nerrs
          /\ Cardinality(lost' \ lost) = (IF last'.nerrs = 2 THEN 1 ELSE 0)
          /\ lost \subseteq lost'
          /\ last'.nerrs = 2 =>
                /\ last'.op = "pty_open_and_spawn"
                /\ last'.res = "panic"
                /\ last'.ret = -1
                /\ "spawn_command" \in last'.prims
                /\ last'.text = "Panic during PTY open/spawn"]_vars

====
